---------------------------- MODULE Spec2Model ----------------------------
(***************************************************************************)
(* Model of the chat session state machine of Ergo-dash (src/app.py):      *)
(* the handle_chat callback, the stores it reads and writes, and the       *)
(* helpers it calls (is_scan_file, save_upload_to_disk, save_task_json,    *)
(* load_niosh_scores, is_motion_safe).                                     *)
(*                                                                         *)
(* Representation of Python values                                         *)
(*   - A string is a sequence of chunks (TLA+ strings) whose concatenation *)
(*     is the Python string.  Strings the code inspects character by       *)
(*     character (typed text, file names) are one character per chunk;     *)
(*     fixed message texts and paths are kept as one chunk.                *)
(*   - None as a file name or text value is the empty sequence: the code   *)
(*     only tests these for truthiness (lines 380, 414).                   *)
(*   - A float is an integer count of 1e-4 units (Unit).                   *)
(*   - bool | None results are the strings "True", "False", "None".        *)
(***************************************************************************)
EXTENDS Integers, Sequences, FiniteSets, TLC

\* ------------------------------------------------------------------------
\* Python string primitives
\* ------------------------------------------------------------------------

\* str.isspace / regex \s on the characters the inputs use
Whitespace == {" ", "\t", "\n"}

UpperLetters ==
  <<"A", "B", "C", "D", "E", "F", "G", "H", "I", "J", "K", "L", "M",
    "N", "O", "P", "Q", "R", "S", "T", "U", "V", "W", "X", "Y", "Z">>

LowerLetters ==
  <<"a", "b", "c", "d", "e", "f", "g", "h", "i", "j", "k", "l", "m",
    "n", "o", "p", "q", "r", "s", "t", "u", "v", "w", "x", "y", "z">>

\* the lower-case letter of each upper-case letter
LowerOf ==
  [c \in {UpperLetters[i] : i \in 1..26} |->
     LowerLetters[CHOOSE i \in 1..26 : UpperLetters[i] = c]]

LowerChar(c) == IF c \in DOMAIN LowerOf THEN LowerOf[c] ELSE c

\* str.lower()
Lower(s) == [i \in 1..Len(s) |-> LowerChar(s[i])]

\* the text taken as typed, without strip()
Strip_none(s) == s

RECURSIVE LStrip(_)
LStrip(s) ==
  IF s # <<>> /\ Head(s) \in Whitespace THEN LStrip(Tail(s)) ELSE s

RECURSIVE RStrip(_)
RStrip(s) ==
  IF s # <<>> /\ s[Len(s)] \in Whitespace
  THEN RStrip(SubSeq(s, 1, Len(s) - 1))
  ELSE s

\* str.strip()
Strip(s) == RStrip(LStrip(s))

\* str.startswith(p)
StartsWith(s, p) == Len(s) >= Len(p) /\ SubSeq(s, 1, Len(p)) = p

\* p in s
Contains(s, p) ==
  \E i \in 1..(Len(s) - Len(p) + 1) : SubSeq(s, i, i + Len(p) - 1) = p

\* s.rfind(c): 1-based index of the last occurrence of c, 0 when there is none
RFind(s, c) ==
  IF \E i \in 1..Len(s) : s[i] = c
  THEN CHOOSE i \in 1..Len(s) : s[i] = c /\ \A j \in (i + 1)..Len(s) : s[j] # c
  ELSE 0

\* ------------------------------------------------------------------------
\* Constants / Defaults
\* ------------------------------------------------------------------------

DEFAULT_VIDEO ==
  <<"/assets/static_dash/generated/exp1/slowed_generated_terrain_lift_fast.mp4">>

\* base directory of f"/assets/static_dash/mocap/exp1/{candidate}"
MOTION_BASE_DIR == <<"/assets/static_dash/mocap/exp1/">>

\* "/" + str(UPLOAD_DIR) + "/" as the save helpers return it
UPLOAD_DIR == <<"/assets/uploads/">>

SCAN_EXTS ==
  { <<".", "o", "b", "j">>, <<".", "s", "t", "l">>, <<".", "p", "l", "y">>,
    <<".", "g", "l", "b">>, <<".", "g", "l", "t", "f">>, <<".", "f", "b", "x">>,
    <<".", "l", "a", "s">>, <<".", "l", "a", "z">>, <<".", "e", "5", "7">>,
    <<".", "x", "y", "z">>, <<".", "p", "t", "x">>, <<".", "p", "t", "s">> }

\* float fixed point: 1.0 is Unit
Unit == 10000

\* thresholds of is_motion_safe: 1.0 and 3400.0
LI_MAX == Unit
BACK_FORCE_MAX_N == 3400 * Unit


\* ------------------------------------------------------------------------
\* Helpers: uploads
\* ------------------------------------------------------------------------

\* The final component of a path, as pathlib's PurePath.name gives it:
\* trailing "/" and "." components are dropped first.
RECURSIVE PathName(_)
PathName(filename) ==
  IF filename = <<>> THEN <<>>
  ELSE IF filename[Len(filename)] = "/"
       THEN PathName(SubSeq(filename, 1, Len(filename) - 1))
  ELSE LET i == RFind(filename, "/")
           last == SubSeq(filename, i + 1, Len(filename))
       IN  IF last = <<".">>
           THEN PathName(SubSeq(filename, 1, i - 1))
           ELSE last

\* Path(filename).suffix: the part of the name from its last "." on, empty
\* when the name has no ".", starts with its only "." or ends with "."
Suffix(filename) ==
  LET name == PathName(filename)
      i == RFind(name, ".")
  IN  IF 1 < i /\ i < Len(name) THEN SubSeq(name, i, Len(name)) ELSE <<>>

\* is_scan_file without lower()
is_scan_file_case_sensitive(filename) == Suffix(filename) \in SCAN_EXTS

is_scan_file(filename) == Lower(Suffix(filename)) \in SCAN_EXTS

\* filename.split(".")[0]: the first segment taken for the last
FirstDotSegment(filename) ==
  IF Contains(filename, <<".">>)
  THEN SubSeq(filename, 1,
              (CHOOSE i \in 1..Len(filename) :
                 /\ filename[i] = "."
                 /\ \A j \in 1..(i - 1) : filename[j] # ".") - 1)
  ELSE filename

\* filename.split(".")[-1]
LastDotSegment(filename) ==
  SubSeq(filename, RFind(filename, ".") + 1, Len(filename))

\* upload_contents is None
NoContents == [kind |-> "None"]

\* upload_contents as a data URL string
DataUrl(chars) == [kind |-> "str", chars |-> chars]

\* base64.b64decode(b64data) succeeds: the padded data comes in groups of four
B64DecodeOk(b64data) == Len(b64data) % 4 = 0

\* save_upload_to_disk(contents, filename): the path returned, or the
\* exception raised.  write_ok is whether open()/write() of the file succeed.
save_upload_to_disk(contents, filename, write_ok) ==
  IF contents.chars = <<>> \/ ~Contains(contents.chars, <<",">>)
  THEN [ok |-> FALSE, err |-> <<"Invalid upload contents">>]
  ELSE LET comma == CHOOSE i \in 1..Len(contents.chars) :
                      /\ contents.chars[i] = ","
                      /\ \A j \in 1..(i - 1) : contents.chars[j] # ","
           b64data == SubSeq(contents.chars, comma + 1, Len(contents.chars))
           out == UPLOAD_DIR \o <<"scan.">> \o LastDotSegment(filename)
       IN  IF ~B64DecodeOk(b64data)
           THEN [ok |-> FALSE, err |-> <<"Incorrect padding">>]
           ELSE IF ~write_ok
           THEN [ok |-> FALSE, err |-> <<"[Errno 28] No space left on device">>]
           ELSE [ok |-> TRUE, path |-> out]

\* save_task_json returning str(out) without the leading "/"
save_task_json_relative(raw_text, write_ok) ==
  IF ~write_ok
  THEN [ok |-> FALSE, err |-> <<"[Errno 28] No space left on device">>]
  ELSE [ok |-> TRUE, path |-> <<"assets/uploads/", "task.json">>]

\* save_task_json with the failure of the write swallowed
save_task_json_unchecked(raw_text, write_ok) ==
  [ok |-> TRUE, path |-> UPLOAD_DIR \o <<"task.json">>]

\* save_task_json(raw_text): the path returned, or the exception raised
save_task_json(raw_text, write_ok) ==
  IF ~write_ok
  THEN [ok |-> FALSE, err |-> <<"[Errno 28] No space left on device">>]
  ELSE [ok |-> TRUE, path |-> UPLOAD_DIR \o <<"task.json">>]

\* ------------------------------------------------------------------------
\* Helpers: NIOSH score file and safety rule
\* ------------------------------------------------------------------------

\* Python values a score variable can hold
PyNone == [kind |-> "none"]
PyNum(n) == [kind |-> "num", num |-> n]
PyStr(chars) == [kind |-> "str", chars |-> chars]
PyList(items) == [kind |-> "list", items |-> items]

\* dict.get(key): None for a key the dict does not hold
DictGet(d, key) == IF key \in DOMAIN d THEN d[key] ELSE PyNone

EmptyDict == [k \in {} |-> PyNone]

\* get_item giving None for a list that is too short
get_item_strict(v, idx) ==
  IF v.kind = "none" THEN PyNone
  ELSE IF v.kind = "list"
       THEN IF Len(v.items) > idx THEN v.items[idx + 1] ELSE PyNone
  ELSE v

\* get_item(var, idx) of load_niosh_scores; the module attribute is v
get_item(v, idx) ==
  IF v.kind = "none" THEN PyNone
  ELSE IF v.kind = "list" /\ Len(v.items) > idx THEN v.items[idx + 1]
  ELSE v

\* load_niosh_scores(path, id) on a score file.  A file is
\* [exists, loads, attrs]: whether the path exists, whether executing it
\* succeeds, and the attributes the module then has (PyNone when unset).
load_niosh_scores(file, id) ==
  IF ~file.exists THEN EmptyDict
  ELSE IF ~file.loads THEN EmptyDict
  ELSE [k \in {"SSPP_L4L5", "LI", "RWL"} |-> get_item(file.attrs[k], id)]

IsDigit(c) == c \in {"0", "1", "2", "3", "4", "5", "6", "7", "8", "9"}

DigitVal(c) ==
  CASE c = "0" -> 0 [] c = "1" -> 1 [] c = "2" -> 2 [] c = "3" -> 3
    [] c = "4" -> 4 [] c = "5" -> 5 [] c = "6" -> 6 [] c = "7" -> 7
    [] c = "8" -> 8 [] c = "9" -> 9

RECURSIVE DigitsVal(_)
DigitsVal(ds) ==
  IF ds = <<>> THEN 0
  ELSE 10 * DigitsVal(SubSeq(ds, 1, Len(ds) - 1)) + DigitVal(ds[Len(ds)])

\* float(x) raises for None, for a list and for a string that is not a
\* number; the strings read as numbers here are the plain digit strings
FloatOk(v) ==
  \/ v.kind = "num"
  \/ /\ v.kind = "str"
     /\ Strip(v.chars) # <<>>
     /\ \A i \in 1..Len(Strip(v.chars)) : IsDigit(Strip(v.chars)[i])

\* float(x) where it does not raise
Float(v) ==
  IF v.kind = "num" THEN v.num ELSE DigitsVal(Strip(v.chars)) * Unit

\* is_motion_safe with strict comparisons (< for <=)
is_motion_safe_strict(scores) ==
  LET li == DictGet(scores, "LI")
      backN == DictGet(scores, "SSPP_L4L5")
  IN  IF li.kind = "none" \/ backN.kind = "none" THEN "None"
      ELSE IF ~FloatOk(li) THEN "None"
      ELSE IF ~(Float(li) < LI_MAX) THEN "False"
      ELSE IF ~FloatOk(backN) THEN "None"
      ELSE IF Float(backN) < BACK_FORCE_MAX_N THEN "True" ELSE "False"

\* is_motion_safe(scores): "True", "False" or "None".  The "and" evaluates
\* float(backN) only when float(li) <= 1.0.
is_motion_safe(scores) ==
  LET li == DictGet(scores, "LI")
      backN == DictGet(scores, "SSPP_L4L5")
  IN  IF li.kind = "none" \/ backN.kind = "none" THEN "None"
      ELSE IF ~FloatOk(li) THEN "None"
      ELSE IF ~(Float(li) <= LI_MAX) THEN "False"
      ELSE IF ~FloatOk(backN) THEN "None"
      ELSE IF Float(backN) <= BACK_FORCE_MAX_N THEN "True" ELSE "False"

\* ------------------------------------------------------------------------
\* Messages (texts are written in ASCII; the first line stands for the text)
\* ------------------------------------------------------------------------

UserText(content) == [role |-> "user", kind |-> "text", content |-> content]

UserFile(filename) ==
  [role |-> "user", kind |-> "file", content |-> <<"file">>,
   filename |-> filename]

Assistant(content) ==
  [role |-> "assistant", kind |-> "text", content |-> content]

MSG_INCOMPLETE ==
  <<"I have both the 3D scan and task description. However, the available metrics are incomplete for a safety decision. Please ensure LI and the L5/S1 back force are present.">>

MSG_TECHNIQUES ==
  <<"Techniques for lifting boxes from hard-to-reach positions (e.g., back of pallets) ...">>

MSG_SAFE ==
  <<"You can safely perform the task by following the example motion shown.">>

MSG_WHAT_IF ==
  <<"Posture improvement alone is not sufficient (LI > 1), conduct what-if experiments: 1) reduce the weight, 2) increasing the lift height.">>

MSG_RECEIVED_SCAN == <<"Received 3D scan of site.">>

MSG_LOWER_WEIGHT ==
  <<"What-if experiment: **lower weight**. Simulating reduced load in NIOSH and 3DSSPP... (placeholder output).">>

MSG_VIDEO_HIDDEN == <<"Video hidden.">>

MSG_INCREASE_HEIGHT ==
  <<"What-if experiment: **increase height** - not implemented.">>

\* the filler reply left empty
MSG_FILLER_EMPTY == <<>>

\* the one-character reply (a horizontal ellipsis)
MSG_FILLER == <<"...">>

\* the stub record echoed by the task description branch
SAMPLE ==
  <<"{ task: lift, object_type: box, handle_type: none, weight_kg: 10.0, size_m: [0.4, 0.4, 0.4], start_h_m: 0.0, start_loc_m: [8.5, 4.0] }">>

\* character codes, for sorted(): "." < digits < lower-case letters
CharOrder ==
  <<".", "0", "1", "2", "3", "4", "5", "6", "7", "8", "9">> \o LowerLetters

CharCode(c) == CHOOSE i \in 1..Len(CharOrder) : CharOrder[i] = c

\* a < b for strings
StrLess(a, b) ==
  \E i \in 1..(Len(b)) :
    /\ i <= Len(a) + 1
    /\ SubSeq(a, 1, i - 1) = SubSeq(b, 1, i - 1)
    /\ \/ i = Len(a) + 1
       \/ CharCode(a[i]) < CharCode(b[i])

\* ", ".join(sorted(S))
RECURSIVE JoinSorted(_)
JoinSorted(S) ==
  IF S = {} THEN <<>>
  ELSE LET first == CHOOSE x \in S : \A y \in S \ {x} : StrLess(x, y)
       IN  IF S = {first} THEN first
           ELSE first \o <<",", " ">> \o JoinSorted(S \ {first})

\* the rejection message with a list that lacks one extension
MSG_REJECTED_STALE ==
  <<"Sorry, I can't process this file type. Please upload a 3D scan in one of the following formats: ">>
    \o JoinSorted(SCAN_EXTS \ {<<".", "p", "t", "s">>})

MSG_REJECTED ==
  <<"Sorry, I can't process this file type. Please upload a 3D scan in one of the following formats: ">>
    \o JoinSorted(SCAN_EXTS)

\* ------------------------------------------------------------------------
\* handle_chat
\* ------------------------------------------------------------------------

\* a callback output: a value for the component, or dash.no_update (the
\* component keeps cur)
no_update(cur) == [upd |-> FALSE, val |-> cur]
Output(v) == [upd |-> TRUE, val |-> v]

\* the test of maybe_finish_and_verdict with "or" for "and"
cross_check_due_either(scan_state, task_state) ==
  scan_state.has_scan \/ task_state.has_task

\* the test of maybe_finish_and_verdict reading the task flag only
cross_check_due_task_only(scan_state, task_state) == task_state.has_task


\* the test of maybe_finish_and_verdict: both flags are set
cross_check_due(scan_state, task_state) ==
  scan_state.has_scan /\ task_state.has_task

\* the cross-check showing the video without setting its source
cross_check_video_keep_src(video_state) ==
  [show |-> TRUE,
   src |-> IF video_state.src = <<>> THEN DEFAULT_VIDEO ELSE video_state.src]

\* the video the cross-check shows in the bottom player
cross_check_video(video_state) == [show |-> TRUE, src |-> DEFAULT_VIDEO]

\* the messaging with the guidance message appended on a safe verdict only
cross_check_report_guidance_if_safe(history, verdict_state, verdict) ==
  LET history1 == IF verdict = "True"
                  THEN Append(history, Assistant(MSG_TECHNIQUES))
                  ELSE history
      msg2 == IF verdict = "True" THEN MSG_SAFE ELSE MSG_WHAT_IF
      verdict2 == IF verdict = "True"
                  THEN [ready |-> TRUE, safe |-> "True"]
                  ELSE [ready |-> TRUE, safe |-> "False"]
  IN  [history |-> Append(history1, Assistant(msg2)),
       verdict_state |-> verdict2]

\* the messaging of maybe_finish_and_verdict for a verdict: the handler's
\* history and verdict_state after it
cross_check_report(history, verdict_state, verdict) ==
  LET \* if verdict is None: ... else: ...
      msg1 == IF verdict = "None" THEN MSG_INCOMPLETE ELSE MSG_TECHNIQUES
      verdict1 == IF verdict = "None"
                  THEN [ready |-> TRUE, safe |-> "None"]
                  ELSE verdict_state
      history1 == IF verdict = "None" THEN history
                  ELSE Append(history, Assistant(msg1))
      \* if verdict: ... else: ...
      msg2 == IF verdict = "True" THEN MSG_SAFE ELSE MSG_WHAT_IF
      verdict2 == IF verdict = "True"
                  THEN [ready |-> TRUE, safe |-> "True"]
                  ELSE [ready |-> TRUE, safe |-> "False"]
  IN  [history |-> Append(history1, Assistant(msg2)),
       verdict_state |-> verdict2]

\* maybe_finish_and_verdict guarded: it does nothing once the history
\* holds the messages of a verdict
maybe_finish_once(history, video_state, verdict_state, scan_state, task_state, score_file) ==
  IF /\ cross_check_due(scan_state, task_state)
     /\ \A i \in 1..Len(history) :
          history[i] \notin {Assistant(MSG_SAFE), Assistant(MSG_WHAT_IF)}
  THEN LET scores == load_niosh_scores(score_file, 0)
           verdict == is_motion_safe(scores)
           report == cross_check_report(history, verdict_state, verdict)
       IN  [history |-> report.history,
            video_state |-> cross_check_video(video_state),
            verdict_state |-> report.verdict_state]
  ELSE [history |-> history, video_state |-> video_state,
        verdict_state |-> [ready |-> TRUE, safe |-> "None"]]

\* maybe_finish_and_verdict(): the handler's history, video_state and
\* verdict_state after the call
maybe_finish_and_verdict(history, video_state, verdict_state, scan_state, task_state, score_file) ==
  IF cross_check_due(scan_state, task_state)
  THEN LET scores == load_niosh_scores(score_file, 0)
           verdict == is_motion_safe(scores)
           report == cross_check_report(history, verdict_state, verdict)
       IN  [history |-> report.history,
            video_state |-> cross_check_video(video_state),
            verdict_state |-> report.verdict_state]
  ELSE [history |-> history, video_state |-> video_state,
        verdict_state |-> verdict_state]

\* re.search(r"(?:^|\s)/(?:play|video)(?:\s+(.+))?$", user_text, re.IGNORECASE)
\* user_text is stripped, so it does not end in a newline and $ is its end.

\* the directive token that starts at position i of s, <<>> when none does
DirectiveAt(s, i) ==
  IF i + 4 <= Len(s) /\ Lower(SubSeq(s, i, i + 4)) = <<"/", "p", "l", "a", "y">>
  THEN <<"/", "p", "l", "a", "y">>
  ELSE IF i + 5 <= Len(s) /\ Lower(SubSeq(s, i, i + 5)) = <<"/", "v", "i", "d", "e", "o">>
  THEN <<"/", "v", "i", "d", "e", "o">>
  ELSE <<>>

\* the lengths of \s+ for which (?:\s+(.+))$ matches rest
GroupSplits(rest) ==
  { j \in 1..(Len(rest) - 1) :
      /\ \A k \in 1..j : rest[k] \in Whitespace
      /\ \A k \in (j + 1)..Len(rest) : rest[k] # "\n" }

\* the pattern matches with (?:^|\s)/ at position i
MatchesAt(s, i) ==
  /\ i = 1 \/ s[i - 1] \in Whitespace
  /\ DirectiveAt(s, i) # <<>>
  /\ LET rest == SubSeq(s, i + Len(DirectiveAt(s, i)), Len(s))
     IN  rest = <<>> \/ GroupSplits(rest) # {}

\* whether re.search finds a match
PlayMatch(s) == \E i \in 1..Len(s) : MatchesAt(s, i)

\* m.group(1) or "" of the leftmost match; \s+ is greedy
PlayGroup(s) ==
  LET i == CHOOSE i \in 1..Len(s) :
             MatchesAt(s, i) /\ \A j \in 1..(i - 1) : ~MatchesAt(s, j)
      rest == SubSeq(s, i + Len(DirectiveAt(s, i)), Len(s))
  IN  IF GroupSplits(rest) = {} THEN <<>>
      ELSE LET j == CHOOSE j \in GroupSplits(rest) :
                      \A k \in GroupSplits(rest) : k <= j
           IN  SubSeq(rest, j + 1, Len(rest))

\* the play directive leaving a relative asset path as the user wrote it
ResolveSrc_relative_kept(candidate) ==
  IF candidate = <<>> THEN DEFAULT_VIDEO
  ELSE IF StartsWith(candidate, <<"/", "a", "s", "s", "e", "t", "s", "/">>)
          \/ StartsWith(candidate, <<"a", "s", "s", "e", "t", "s", "/">>)
  THEN candidate
  ELSE MOTION_BASE_DIR \o candidate


\* the play directive taking the fragment as the source
ResolveSrc_raw(candidate) ==
  IF candidate = <<>> THEN DEFAULT_VIDEO ELSE candidate

\* the source the play directive resolves to
ResolveSrc(candidate) ==
  IF candidate = <<>> THEN DEFAULT_VIDEO
  ELSE IF StartsWith(candidate, <<"/", "a", "s", "s", "e", "t", "s", "/">>)
  THEN candidate
  ELSE IF StartsWith(candidate, <<"a", "s", "s", "e", "t", "s", "/">>)
  THEN <<"/">> \o candidate
  ELSE MOTION_BASE_DIR \o candidate

\* the hide test with the two slash commands only
HideMatch_slash_only(lowered) ==
  \/ Contains(lowered, <<"/", "h", "i", "d", "e">>)
  \/ Contains(lowered, <<"/", "s", "t", "o", "p">>)

\* any(k in lowered for k in ("/hide", "/stop", "hide video", "stop video"))
HideMatch(lowered) ==
  \/ Contains(lowered, <<"/", "h", "i", "d", "e">>)
  \/ Contains(lowered, <<"/", "s", "t", "o", "p">>)
  \/ Contains(lowered, <<"h", "i", "d", "e", " ", "v", "i", "d", "e", "o">>)
  \/ Contains(lowered, <<"s", "t", "o", "p", " ", "v", "i", "d", "e", "o">>)

TASK_PREFIX ==
  <<"t", "a", "s", "k", " ", "d", "e", "s", "c", "r", "i", "p", "t", "i", "o", "n", ":">>

\* the what-if phrase written with a hyphen
LOWER_WEIGHT_hyphen ==
  <<"l", "o", "w", "e", "r", "-", "w", "e", "i", "g", "h", "t">>

LOWER_WEIGHT == <<"l", "o", "w", "e", "r", " ", "w", "e", "i", "g", "h", "t">>

INCREASE_HEIGHT ==
  <<"i", "n", "c", "r", "e", "a", "s", "e", " ", "h", "e", "i", "g", "h", "t">>

\* The stores start out non-empty dicts and the handler only ever writes
\* non-empty dicts back, so the "x or default" of lines 328-331 keeps x.

\* The arguments of handle_chat are a record a: upload_contents,
\* upload_filename, text_value, history, video_state, scan_state, task_state
\* (n_clicks is not read).  Its result is the eight callback outputs and the
\* paths it wrote under UPLOAD_DIR.

\* the returns with verdict_state for the no_update of the verdict output
VerdictStateReturned(a) ==
  [history |-> no_update(a.history),
   text |-> no_update(a.text_value),
   contents |-> no_update(a.upload_contents),
   filename |-> no_update(a.upload_filename),
   video |-> no_update(a.video_state),
   scan |-> no_update(a.scan_state),
   task |-> no_update(a.task_state),
   verdict |-> Output([ready |-> FALSE, safe |-> "None"]),
   written |-> {}]

\* the no-trigger return with an empty list for the no_update of the history
HistoryCleared(a) ==
  [history |-> Output(<<>>),
   text |-> no_update(a.text_value),
   contents |-> no_update(a.upload_contents),
   filename |-> no_update(a.upload_filename),
   video |-> no_update(a.video_state),
   scan |-> no_update(a.scan_state),
   task |-> no_update(a.task_state),
   verdict |-> no_update([ready |-> FALSE, safe |-> "None"]),
   written |-> {}]

\* the no-trigger return with "" for the no_update of the text input
TextEmptied(a) ==
  [history |-> no_update(a.history),
   text |-> Output(<<>>),
   contents |-> no_update(a.upload_contents),
   filename |-> no_update(a.upload_filename),
   video |-> no_update(a.video_state),
   scan |-> no_update(a.scan_state),
   task |-> no_update(a.task_state),
   verdict |-> no_update([ready |-> FALSE, safe |-> "None"]),
   written |-> {}]


\* the return whose every output is no_update (line 326)
AllNoUpdate(a) ==
  [history |-> no_update(a.history),
   text |-> no_update(a.text_value),
   contents |-> no_update(a.upload_contents),
   filename |-> no_update(a.upload_filename),
   video |-> no_update(a.video_state),
   scan |-> no_update(a.scan_state),
   task |-> no_update(a.task_state),
   verdict |-> no_update([ready |-> FALSE, safe |-> "None"]),
   written |-> {}]

\* the upload branch of handle_chat (lines 378-411)
upload_branch(a, verdict_state, score_file, write_ok) ==
  IF a.upload_filename # <<>> /\ is_scan_file(a.upload_filename)
  THEN LET saved == save_upload_to_disk(a.upload_contents, a.upload_filename, write_ok)
       IN  IF saved.ok
           THEN LET scan1 == [has_scan |-> TRUE, path |-> saved.path]
                    history1 == Append(Append(a.history, UserFile(a.upload_filename)),
                                       Assistant(MSG_RECEIVED_SCAN))
                    fin == maybe_finish_and_verdict(history1, a.video_state,
                             verdict_state, scan1, a.task_state, score_file)
                IN  [AllNoUpdate(a) EXCEPT
                       !.history = Output(fin.history),
                       !.contents = Output(NoContents),
                       !.filename = Output(<<>>),
                       !.video = Output(fin.video_state),
                       !.scan = Output(scan1),
                       !.task = Output(a.task_state),
                       !.verdict = Output(fin.verdict_state),
                       !.written = {saved.path}]
           ELSE [AllNoUpdate(a) EXCEPT
                   !.history = Output(Append(a.history,
                      Assistant(<<"Failed to save upload: ">> \o saved.err))),
                   !.contents = Output(NoContents),
                   !.filename = Output(<<>>),
                   !.scan = Output(a.scan_state),
                   !.task = Output(a.task_state)]
  ELSE [AllNoUpdate(a) EXCEPT
          !.history = Output(Append(Append(a.history, UserFile(a.upload_filename)),
                                    Assistant(MSG_REJECTED))),
          !.contents = Output(NoContents),
          !.filename = Output(<<>>),
          !.scan = Output(a.scan_state),
          !.task = Output(a.task_state)]

\* the chat-send branch testing the play directive before "lower weight"
send_branch_play_first(a, verdict_state, score_file, write_ok) ==
  LET user_text == Strip(a.text_value)
      history1 == Append(a.history, UserText(user_text))
      lowered == Lower(user_text)
      \* the outputs every return after line 418 shares
      sent == [AllNoUpdate(a) EXCEPT
                 !.text = Output(<<>>),
                 !.scan = Output(a.scan_state),
                 !.task = Output(a.task_state)]
  IN  IF user_text = <<>>
      THEN [AllNoUpdate(a) EXCEPT !.history = Output(a.history)]
      ELSE IF StartsWith(lowered, TASK_PREFIX)
      THEN LET saved == save_task_json(user_text, write_ok)
           IN  IF saved.ok
               THEN LET task1 == [has_task |-> TRUE, json_path |-> saved.path]
                        history2 == Append(history1, Assistant(
                          <<"Extracted task parameters: ">> \o SAMPLE
                            \o <<"Saved to ">> \o saved.path))
                        fin == maybe_finish_and_verdict(history2, a.video_state,
                                 verdict_state, a.scan_state, task1, score_file)
                    IN  [sent EXCEPT
                           !.history = Output(fin.history),
                           !.video = Output(fin.video_state),
                           !.task = Output(task1),
                           !.verdict = Output(fin.verdict_state),
                           !.written = {saved.path}]
               ELSE [sent EXCEPT
                       !.history = Output(Append(history1, Assistant(
                          <<"Could not save task description: ">> \o saved.err)))]
      ELSE IF Contains(lowered, LOWER_WEIGHT) /\ ~PlayMatch(user_text)
      THEN [sent EXCEPT
              !.history = Output(Append(history1, Assistant(MSG_LOWER_WEIGHT)))]
      ELSE LET src == ResolveSrc(Strip(PlayGroup(user_text)))
               video1 ==
                 IF PlayMatch(user_text) THEN [show |-> TRUE, src |-> src]
                 ELSE IF HideMatch(lowered)
                 THEN [show |-> FALSE, src |-> a.video_state.src]
                 ELSE a.video_state
               bot_reply ==
                 IF PlayMatch(user_text) THEN <<"Playing: ">> \o src
                 ELSE IF HideMatch(lowered) THEN MSG_VIDEO_HIDDEN
                 ELSE IF Contains(lowered, INCREASE_HEIGHT) THEN MSG_INCREASE_HEIGHT
                 ELSE MSG_FILLER
           IN  [sent EXCEPT
                  !.history = Output(Append(history1, Assistant(bot_reply))),
                  !.video = Output(video1)]

\* the chat-send branch of handle_chat (lines 413-490)
send_branch(a, verdict_state, score_file, write_ok) ==
  LET user_text == Strip(a.text_value)
      history1 == Append(a.history, UserText(user_text))
      lowered == Lower(user_text)
      \* the outputs every return after line 418 shares
      sent == [AllNoUpdate(a) EXCEPT
                 !.text = Output(<<>>),
                 !.scan = Output(a.scan_state),
                 !.task = Output(a.task_state)]
  IN  IF user_text = <<>>
      THEN [AllNoUpdate(a) EXCEPT !.history = Output(a.history)]
      ELSE IF StartsWith(lowered, TASK_PREFIX)
      THEN LET saved == save_task_json(user_text, write_ok)
           IN  IF saved.ok
               THEN LET task1 == [has_task |-> TRUE, json_path |-> saved.path]
                        history2 == Append(history1, Assistant(
                          <<"Extracted task parameters: ">> \o SAMPLE
                            \o <<"Saved to ">> \o saved.path))
                        fin == maybe_finish_and_verdict(history2, a.video_state,
                                 verdict_state, a.scan_state, task1, score_file)
                    IN  [sent EXCEPT
                           !.history = Output(fin.history),
                           !.video = Output(fin.video_state),
                           !.task = Output(task1),
                           !.verdict = Output(fin.verdict_state),
                           !.written = {saved.path}]
               ELSE [sent EXCEPT
                       !.history = Output(Append(history1, Assistant(
                          <<"Could not save task description: ">> \o saved.err)))]
      ELSE IF Contains(lowered, LOWER_WEIGHT)
      THEN [sent EXCEPT
              !.history = Output(Append(history1, Assistant(MSG_LOWER_WEIGHT)))]
      ELSE LET src == ResolveSrc(Strip(PlayGroup(user_text)))
               video1 ==
                 IF PlayMatch(user_text) THEN [show |-> TRUE, src |-> src]
                 ELSE IF HideMatch(lowered)
                 THEN [show |-> FALSE, src |-> a.video_state.src]
                 ELSE a.video_state
               bot_reply ==
                 IF PlayMatch(user_text) THEN <<"Playing: ">> \o src
                 ELSE IF HideMatch(lowered) THEN MSG_VIDEO_HIDDEN
                 ELSE IF Contains(lowered, INCREASE_HEIGHT) THEN MSG_INCREASE_HEIGHT
                 ELSE MSG_FILLER
           IN  [sent EXCEPT
                  !.history = Output(Append(history1, Assistant(bot_reply))),
                  !.video = Output(video1)]

\* handle_chat: triggered is ctx.triggered[0]'s component id, "" when
\* ctx.triggered is empty
handle_chat(triggered, a, score_file, write_ok) ==
  LET verdict_state == [ready |-> FALSE, safe |-> "None"]
  IN  IF triggered = "" THEN AllNoUpdate(a)
      ELSE IF triggered = "chat-upload" /\ a.upload_contents.kind # "None"
      THEN upload_branch(a, verdict_state, score_file, write_ok)
      ELSE IF triggered = "chat-send"
      THEN send_branch(a, verdict_state, score_file, write_ok)
      ELSE [AllNoUpdate(a) EXCEPT
              !.history = Output(a.history),
              !.scan = Output(a.scan_state),
              !.task = Output(a.task_state)]

\* ------------------------------------------------------------------------
\* The session: the stores and components of app.layout and the upload
\* directory.  The score file at SCORE_GENERATED_PATH is written by other
\* programs: each call of the handler reads whatever file is there.
\* ------------------------------------------------------------------------

VARIABLES
  chat_store,            \* dcc.Store "chat-store": the history
  chat_text,             \* dcc.Textarea "chat-text": its value
  chat_upload_contents,  \* dcc.Upload "chat-upload": contents
  chat_upload_filename,  \* dcc.Upload "chat-upload": filename
  show_video_store,      \* dcc.Store "show-video"
  scan_state_store,      \* dcc.Store "scan-state"
  task_state_store,      \* dcc.Store "task-state"
  verdict_state_store,   \* dcc.Store "verdict-state"
  uploads,               \* the paths written under UPLOAD_DIR
  n_events,              \* the number of calls of handle_chat so far
  tabs,                  \* the browser sessions open side by side, each
                         \* with its own components, where a run has several
  call                   \* the last call: the callback context of
                         \* handle_chat, or the arguments and the result
                         \* of a helper called on its own

vars ==
  <<chat_store, chat_text, chat_upload_contents, chat_upload_filename,
    show_video_store, scan_state_store, task_state_store, verdict_state_store,
    uploads, n_events, tabs, call>>

\* the session runs are the first MaxEvents calls of handle_chat
MaxEvents == 3

\* a score file whose module sets LI, RWL and SSPP_L4L5 to li, rwl, back
ScoreModule(li, rwl, back) ==
  [exists |-> TRUE, loads |-> TRUE,
   attrs |-> [LI |-> li, RWL |-> rwl, SSPP_L4L5 |-> back]]

MissingFile ==
  [exists |-> FALSE, loads |-> FALSE,
   attrs |-> [LI |-> PyNone, RWL |-> PyNone, SSPP_L4L5 |-> PyNone]]

\* the score files of the session runs: none, a safe one (LI 0.8, 3000 N),
\* an unsafe one (LI [1.2]) and one without LI
ScoreFiles ==
  { MissingFile,
    ScoreModule(PyNum(8000), PyNum(230000), PyNum(3000 * Unit)),
    ScoreModule(PyList(<<PyNum(12000)>>), PyNum(230000), PyList(<<PyNum(3000 * Unit)>>)),
    ScoreModule(PyNone, PyNum(230000), PyNum(3000 * Unit)) }

\* the texts typed in the session runs
T_BLANK == <<" ", " ">>
T_TASK ==
  <<"T", "a", "s", "k", " ", "D", "e", "s", "c", "r", "i", "p", "t", "i", "o", "n", ":", " ", "b", "o", "x">>
T_LOWER == <<"l", "o", "w", "e", "r", " ", "w", "e", "i", "g", "h", "t">>
T_VIDEO == <<"/", "v", "i", "d", "e", "o", " ", "a", ".", "m", "p", "4">>
T_HIDE == <<"h", "i", "d", "e", " ", "v", "i", "d", "e", "o">>
T_HEIGHT ==
  <<"i", "n", "c", "r", "e", "a", "s", "e", " ", "h", "e", "i", "g", "h", "t">>
T_HI == <<"h", "i">>

\* "lower weight /play": a what-if phrase and a play directive in one text
T_LOWER_PLAY ==
  <<"l", "o", "w", "e", "r", " ", "w", "e", "i", "g", "h", "t", " ", "/", "p", "l", "a", "y">>

\* the input left empty (a value of "" or None)
T_EMPTY == <<>>

Texts ==
  {T_EMPTY, T_BLANK, T_TASK, T_LOWER, T_VIDEO, T_HIDE, T_HEIGHT, T_HI,
   T_LOWER_PLAY}

\* the files uploaded in the session runs; <<>> is a missing file name
F_SCAN == <<"s", "c", "a", "n", ".", "g", "l", "b">>
F_PDF == <<"d", "o", "c", "u", "m", "e", "n", "t", ".", "p", "d", "f">>

FileNames == {F_SCAN, F_PDF, <<>>}

\* "data:,QUJD" and a string without a comma
C_VALID == DataUrl(<<"d", "a", "t", "a", ":", ",", "Q", "U", "J", "D">>)
C_INVALID == DataUrl(<<"Q", "U", "J", "D">>)

Contents == {C_VALID, C_INVALID}

\* no call has been made
NoCall == [fn |-> "None"]

\* the session after construction (app.layout)
InitSession ==
  /\ chat_store = <<>>
  /\ chat_text = <<>>
  /\ chat_upload_contents = NoContents
  /\ chat_upload_filename = <<>>
  /\ show_video_store = [show |-> FALSE, src |-> <<>>]
  /\ scan_state_store = [has_scan |-> FALSE, path |-> <<>>]
  /\ task_state_store = [has_task |-> FALSE, json_path |-> <<>>]
  /\ verdict_state_store = [ready |-> FALSE, safe |-> "None"]
  /\ uploads = {}
  /\ n_events = 0
  /\ tabs = <<>>

Init == InitSession /\ call = NoCall

\* the arguments of a call with the scan state the handler starts from for
\* the State of the scan-state store
Args_scan_state_default(contents, filename, text) ==
  [upload_contents |-> contents, upload_filename |-> filename,
   text_value |-> text, history |-> chat_store,
   video_state |-> show_video_store,
   scan_state |-> [has_scan |-> FALSE, path |-> <<>>],
   task_state |-> task_state_store]


\* the arguments Dash passes: the Input/State values at the time of the call
Args(contents, filename, text) ==
  [upload_contents |-> contents, upload_filename |-> filename,
   text_value |-> text, history |-> chat_store,
   video_state |-> show_video_store, scan_state |-> scan_state_store,
   task_state |-> task_state_store]

\* a component after an output: no_update keeps what it held
Apply(cur, o) == IF o.upd THEN o.val ELSE cur

\* the callback context of a call: the triggering component and the Input
\* and State values of the components the user acts on
Called(triggered, a) ==
  [fn |-> "handle_chat", triggered |-> triggered,
   upload_contents |-> a.upload_contents,
   upload_filename |-> a.upload_filename, text_value |-> a.text_value]

\* Dash writes the outputs of a call made with arguments a to the components
Commit(triggered, a, out) ==
  /\ chat_store' = Apply(chat_store, out.history)
  /\ chat_text' = Apply(a.text_value, out.text)
  /\ chat_upload_contents' = Apply(a.upload_contents, out.contents)
  /\ chat_upload_filename' = Apply(a.upload_filename, out.filename)
  /\ show_video_store' = Apply(show_video_store, out.video)
  /\ scan_state_store' = Apply(scan_state_store, out.scan)
  /\ task_state_store' = Apply(task_state_store, out.task)
  /\ verdict_state_store' = Apply(verdict_state_store, out.verdict)
  /\ uploads' = uploads \cup out.written
  /\ n_events' = n_events + 1
  /\ call' = Called(triggered, a)
  /\ UNCHANGED tabs

\* the user types text and clicks Send; write_ok: the disk takes a write,
\* score_file: the score file at the time of the call
ClickSend(text, score_file, write_ok) ==
  /\ n_events < MaxEvents
  /\ \E a \in {Args(chat_upload_contents, chat_upload_filename, text)} :
       \E out \in {handle_chat("chat-send", a, score_file, write_ok)} :
         Commit("chat-send", a, out)

\* the user picks a file in the upload widget
UploadFile(contents, filename, score_file, write_ok) ==
  /\ n_events < MaxEvents
  /\ \E a \in {Args(contents, filename, chat_text)} :
       \E out \in {handle_chat("chat-upload", a, score_file, write_ok)} :
         Commit("chat-upload", a, out)

\* the upload widget reports its contents cleared
UploadCleared ==
  /\ n_events < MaxEvents
  /\ chat_upload_contents = NoContents
  /\ \E a \in {Args(chat_upload_contents, chat_upload_filename, chat_text)} :
       \E out \in {handle_chat("chat-upload", a, MissingFile, TRUE)} :
         Commit("chat-upload", a, out)

\* the callback runs with nothing triggered
NoTrigger ==
  /\ n_events < MaxEvents
  /\ \E a \in {Args(chat_upload_contents, chat_upload_filename, chat_text)} :
       \E out \in {handle_chat("", a, MissingFile, TRUE)} :
         Commit("", a, out)

Next ==
  \/ \E text \in Texts, score_file \in ScoreFiles, write_ok \in BOOLEAN :
       ClickSend(text, score_file, write_ok)
  \/ \E contents \in Contents, filename \in FileNames,
        score_file \in ScoreFiles, write_ok \in BOOLEAN :
       UploadFile(contents, filename, score_file, write_ok)
  \/ UploadCleared
  \/ NoTrigger

Spec == Init /\ [][Next]_vars

\* ------------------------------------------------------------------------
\* is_motion_safe on its own: every MetricSet of MetricSets is evaluated
\* ------------------------------------------------------------------------

N_A == <<"n", "/", "a">>

\* LI values: absent, 0.9999, 1.0, 1.0001, 2.0, "1", " 1 ", "2", "n/a", []
LI_VALUES ==
  { PyNone, PyNum(9999), PyNum(Unit), PyNum(10001), PyNum(2 * Unit),
    PyStr(<<"1">>), PyStr(<<" ", "1", " ">>), PyStr(<<"2">>), PyStr(N_A),
    PyList(<<>>) }

\* SSPP_L4L5 values: absent, 3000, 3400, 3400.01, 5000, "3400", "3401",
\* "n/a", []
BACK_VALUES ==
  { PyNone, PyNum(3000 * Unit), PyNum(3400 * Unit), PyNum(3400 * Unit + 100),
    PyNum(5000 * Unit), PyStr(<<"3", "4", "0", "0">>),
    PyStr(<<"3", "4", "0", "1">>), PyStr(N_A), PyList(<<>>) }

\* the dicts load_niosh_scores can return, and dicts without a key
MetricSets ==
  { [k \in {"SSPP_L4L5", "LI", "RWL"} |->
       IF k = "LI" THEN li ELSE IF k = "SSPP_L4L5" THEN back ELSE PyNum(23 * Unit)] :
      li \in LI_VALUES, back \in BACK_VALUES }
  \cup { EmptyDict }
  \cup { [k \in {"SSPP_L4L5"} |-> back] : back \in BACK_VALUES }
  \cup { [k \in {"LI"} |-> li] : li \in LI_VALUES }

InitSafe ==
  /\ InitSession
  /\ call \in { [fn |-> "is_motion_safe", arg |-> m, ret |-> "pending"] :
                m \in MetricSets }

\* the call returns
ReturnMotionSafe ==
  /\ call.fn = "is_motion_safe"
  /\ call.ret = "pending"
  /\ call' = [call EXCEPT !.ret = is_motion_safe(call.arg)]
  /\ UNCHANGED <<chat_store, chat_text, chat_upload_contents,
                 chat_upload_filename, show_video_store, scan_state_store,
                 task_state_store, verdict_state_store, uploads, n_events,
                 tabs>>

NextSafe == ReturnMotionSafe

SpecSafe == InitSafe /\ [][NextSafe]_vars

\* ------------------------------------------------------------------------
\* Properties of the session
\* ------------------------------------------------------------------------

\* the verdict the evaluator gives on a score file
VerdictOn(score_file) == is_motion_safe(load_niosh_scores(score_file, 0))

\* this step is a call triggered by the upload of filename with contents
Uploaded(contents, filename) ==
  call' = Called("chat-upload", Args(contents, filename, chat_text))

\* this step is a call triggered by Send with text in the input
Sent(text) ==
  call' = Called("chat-send",
                 Args(chat_upload_contents, chat_upload_filename, text))

\* this step handles an upload with an accepted extension that is saved
ScanSavedStep(contents, filename, score_file) ==
  /\ Uploaded(contents, filename)
  /\ filename # <<>>
  /\ is_scan_file(filename)
  /\ save_upload_to_disk(contents, filename, TRUE).ok
  /\ UploadFile(contents, filename, score_file, TRUE)

\* this step handles a task description whose record is saved
TaskSavedStep(text, score_file) ==
  /\ Sent(text)
  /\ StartsWith(Lower(Strip(text)), TASK_PREFIX)
  /\ ClickSend(text, score_file, TRUE)

\* this step handles an event that sets its flag and runs the cross-check
\* with both flags set, reading score_file
CrossCheckStep(score_file) ==
  \/ /\ task_state_store.has_task
     /\ \E contents \in Contents, filename \in FileNames :
          ScanSavedStep(contents, filename, score_file)
  \/ /\ scan_state_store.has_scan
     /\ \E text \in Texts : TaskSavedStep(text, score_file)

\* the messages a step appended
Appended == SubSeq(chat_store', Len(chat_store) + 1, Len(chat_store'))

\* C1: in every reachable state, a ready verdict implies that a scan and a
\* task description are both present.
C1_ReadyImpliesScanAndTask ==
  verdict_state_store.ready =>
    scan_state_store.has_scan /\ task_state_store.has_task

C1_Witness ==
  /\ verdict_state_store.ready
  /\ scan_state_store.has_scan
  /\ task_state_store.has_task
  /\ n_events = 2

\* C2: no event of any type takes a ready verdict back to not ready.
C2_ReadyNeverReset ==
  [][verdict_state_store.ready => verdict_state_store'.ready]_vars

\* the verdict was ready before a rejected upload and is ready after it
C2_Witness ==
  /\ verdict_state_store.ready
  /\ chat_store[Len(chat_store)] = Assistant(MSG_REJECTED)

\* C3: when the cross-check runs and the verdict is indeterminate, the step
\* appends the incomplete-metrics message, not the what-if message, and
\* leaves the verdict store {ready: true, safe: None}.
C3_IndeterminateIsReported ==
  [][\A score_file \in ScoreFiles :
       (CrossCheckStep(score_file) /\ VerdictOn(score_file) = "None") =>
         /\ verdict_state_store' = [ready |-> TRUE, safe |-> "None"]
         /\ chat_store'[Len(chat_store')] = Assistant(MSG_INCOMPLETE)
         /\ \A i \in 1..Len(Appended) : Appended[i] # Assistant(MSG_WHAT_IF)]_vars

\* C4: when the cross-check runs and the verdict is determinate, the step
\* appends, after the event's own two messages, exactly the guidance
\* message and then the safe message (Safe) or the what-if message
\* (Unsafe), and the verdict store is {ready: true, safe: the verdict}.
C4_DeterminateIsReported ==
  [][\A score_file \in ScoreFiles :
       (CrossCheckStep(score_file) /\ VerdictOn(score_file) # "None") =>
         /\ Len(Appended) = 4
         /\ SubSeq(chat_store', 1, Len(chat_store)) = chat_store
         /\ Appended[3] = Assistant(MSG_TECHNIQUES)
         /\ Appended[4] = Assistant(IF VerdictOn(score_file) = "True"
                                    THEN MSG_SAFE ELSE MSG_WHAT_IF)
         /\ Appended[2] \notin {Assistant(MSG_TECHNIQUES), Assistant(MSG_SAFE),
                                Assistant(MSG_WHAT_IF)}
         /\ Appended[1].role = "user"
         /\ verdict_state_store' =
              [ready |-> TRUE, safe |-> VerdictOn(score_file)]]_vars

C4_Witness ==
  /\ Len(chat_store) >= 4
  /\ chat_store[Len(chat_store) - 1] = Assistant(MSG_TECHNIQUES)
  /\ chat_store[Len(chat_store)] = Assistant(MSG_SAFE)
  /\ verdict_state_store = [ready |-> TRUE, safe |-> "True"]

\* C7: a saved scan upload or a saved task description that leaves both
\* flags set leaves the video store {show: true, src: DEFAULT_VIDEO},
\* whatever the verdict and the previous video store; one that leaves a
\* flag unset leaves the video store as it was.
C7_VideoFollowsCrossCheck ==
  [][\A score_file \in ScoreFiles :
       ( \/ \E contents \in Contents, filename \in FileNames :
              ScanSavedStep(contents, filename, score_file)
         \/ \E text \in Texts : TaskSavedStep(text, score_file) ) =>
         IF scan_state_store'.has_scan /\ task_state_store'.has_task
         THEN show_video_store' = [show |-> TRUE, src |-> DEFAULT_VIDEO]
         ELSE show_video_store' = show_video_store]_vars

\* the cross-check replaced a source the user chose with /video
C7_Witness ==
  /\ Len(chat_store) >= 2
  /\ chat_store[2] = Assistant(<<"Playing: ">> \o MOTION_BASE_DIR
                                 \o <<"a", ".", "m", "p", "4">>)
  /\ verdict_state_store.ready
  /\ show_video_store = [show |-> TRUE, src |-> DEFAULT_VIDEO]

\* what C8 says an upload leaves behind: the scan flag set with the saved
\* path, the file message and the acknowledgment appended, no cross-check
ScanOnlyRecorded(filename) ==
  /\ scan_state_store' =
       [has_scan |-> TRUE,
        path |-> UPLOAD_DIR \o <<"scan.">> \o Tail(Suffix(filename))]
  /\ chat_store' = chat_store \o
       <<UserFile(filename), Assistant(MSG_RECEIVED_SCAN)>>
  /\ ~verdict_state_store'.ready
  /\ task_state_store' = task_state_store
  /\ show_video_store' = show_video_store

\* C8 as stated: every upload of a file with an accepted extension, while
\* no task is present, records the scan only.
C8_AcceptedExtensionRecordsScan ==
  [][\A contents \in Contents, filename \in FileNames,
        score_file \in ScoreFiles, write_ok \in BOOLEAN :
       ( /\ Uploaded(contents, filename)
         /\ filename # <<>>
         /\ is_scan_file(filename)
         /\ ~task_state_store.has_task
         /\ UploadFile(contents, filename, score_file, write_ok) ) =>
         ScanOnlyRecorded(filename)]_vars

\* C8 amended: every upload of a file with an accepted extension whose
\* contents are saved, while no task is present, records the scan only.
C8_SavedScanRecordsScan ==
  [][\A contents \in Contents, filename \in FileNames,
        score_file \in ScoreFiles :
       ( /\ ~task_state_store.has_task
         /\ ScanSavedStep(contents, filename, score_file) ) =>
         ScanOnlyRecorded(filename)]_vars

C8_Witness ==
  /\ chat_store # <<>>
  /\ chat_store[Len(chat_store)] = Assistant(MSG_RECEIVED_SCAN)
  /\ scan_state_store.has_scan
  /\ ~task_state_store.has_task
  /\ ~verdict_state_store.ready

\* C9: a task description whose record is saved sets the task flag with
\* the record path, appends the user message and the echo of the stub
\* record with the path, and runs the cross-check: with a scan present the
\* verdict becomes ready, and on a Safe verdict the last message is the
\* safe message and the video store is {show: true, src: DEFAULT_VIDEO};
\* without a scan nothing more is appended.
C9_TaskDescriptionSaved ==
  [][\A text \in Texts, score_file \in ScoreFiles :
       TaskSavedStep(text, score_file) =>
         /\ task_state_store' =
              [has_task |-> TRUE,
               json_path |-> <<"/assets/uploads/", "task.json">>]
         /\ Len(Appended) >= 2
         /\ SubSeq(chat_store', 1, Len(chat_store)) = chat_store
         /\ Appended[1] = UserText(Strip(text))
         /\ Appended[2] = Assistant(<<"Extracted task parameters: ">>
              \o SAMPLE \o <<"Saved to ", "/assets/uploads/", "task.json">>)
         /\ IF scan_state_store.has_scan
            THEN /\ verdict_state_store'.ready
                 /\ Len(Appended) > 2
                 /\ VerdictOn(score_file) = "True" =>
                      /\ chat_store'[Len(chat_store')] = Assistant(MSG_SAFE)
                      /\ show_video_store' =
                           [show |-> TRUE, src |-> DEFAULT_VIDEO]
            ELSE /\ Len(Appended) = 2
                 /\ ~verdict_state_store'.ready
                 /\ show_video_store' = show_video_store]_vars

\* the task description came after the scan and the verdict was Safe
C9_Witness ==
  /\ Len(chat_store) = 6
  /\ chat_store[3] = UserText(T_TASK)
  /\ chat_store[6] = Assistant(MSG_SAFE)
  /\ task_state_store.has_task
  /\ show_video_store = [show |-> TRUE, src |-> DEFAULT_VIDEO]

\* C10: an upload whose file name is missing or has no accepted extension
\* appends the file message and one assistant message that lists all
\* twelve extensions, and changes no store but the history.
C10_RejectedUpload ==
  [][\A contents \in Contents, filename \in FileNames :
       ( /\ Uploaded(contents, filename)
         /\ filename = <<>> \/ ~is_scan_file(filename)
         /\ \E score_file \in ScoreFiles, write_ok \in BOOLEAN :
              UploadFile(contents, filename, score_file, write_ok) ) =>
         /\ Len(Appended) = 2
         /\ SubSeq(chat_store', 1, Len(chat_store)) = chat_store
         /\ Appended[1] = UserFile(filename)
         /\ Appended[2].role = "assistant" /\ Appended[2].kind = "text"
         /\ \A ext \in SCAN_EXTS : Contains(Appended[2].content, ext)
         /\ Cardinality(SCAN_EXTS) = 12
         /\ scan_state_store' = scan_state_store
         /\ task_state_store' = task_state_store
         /\ show_video_store' = show_video_store
         /\ verdict_state_store' = verdict_state_store]_vars

\* a file without a name was rejected after the verdict was ready
C10_Witness ==
  /\ verdict_state_store.ready
  /\ Len(chat_store) >= 2
  /\ chat_store[Len(chat_store) - 1] = UserFile(<<>>)
  /\ chat_store[Len(chat_store)] = Assistant(MSG_REJECTED)

\* ------------------------------------------------------------------------
\* Properties of is_motion_safe
\* ------------------------------------------------------------------------

\* is_motion_safe has returned on the MetricSet call.arg
Returned == call.fn = "is_motion_safe" /\ call.ret # "pending"

\* C5: is_motion_safe returns None whenever LI or SSPP_L4L5 is absent or
\* not a number, whatever the other metric is.
C5_NoneWhenMetricUnusable ==
  ( /\ Returned
    /\ \/ ~FloatOk(DictGet(call.arg, "LI"))
       \/ ~FloatOk(DictGet(call.arg, "SSPP_L4L5")) ) =>
    call.ret = "None"

\* C6: when LI and SSPP_L4L5 are both numbers, is_motion_safe returns True
\* exactly when LI <= 1.0 and SSPP_L4L5 <= 3400, and False otherwise.
C6_SafeIffWithinThresholds ==
  ( /\ Returned
    /\ FloatOk(DictGet(call.arg, "LI"))
    /\ FloatOk(DictGet(call.arg, "SSPP_L4L5")) ) =>
    call.ret = IF /\ Float(DictGet(call.arg, "LI")) <= 10000
                  /\ Float(DictGet(call.arg, "SSPP_L4L5")) <= 34000000
               THEN "True" ELSE "False"

\* LI = 1.0 with SSPP_L4L5 = 3400 was found Safe
C6_Witness ==
  /\ Returned
  /\ DictGet(call.arg, "LI") = PyNum(10000)
  /\ DictGet(call.arg, "SSPP_L4L5") = PyNum(34000000)
  /\ call.ret = "True"

\* ------------------------------------------------------------------------
\* Failures, history and the text rules
\* ------------------------------------------------------------------------

\* this step handles an upload with an accepted extension whose write fails
ScanWriteFailedStep(contents, filename, score_file) ==
  /\ Uploaded(contents, filename)
  /\ filename # <<>>
  /\ is_scan_file(filename)
  /\ save_upload_to_disk(contents, filename, TRUE).ok
  /\ UploadFile(contents, filename, score_file, FALSE)

\* this step handles a task description whose write fails
TaskWriteFailedStep(text, score_file) ==
  /\ Sent(text)
  /\ StartsWith(Lower(Strip(text)), TASK_PREFIX)
  /\ ClickSend(text, score_file, FALSE)

\* the step ended with an assistant message that carries the failure
\* reason, wrote nothing and left the video and the verdict alone
FailureReported ==
  /\ Appended # <<>>
  /\ Appended[Len(Appended)].role = "assistant"
  /\ Appended[Len(Appended)].content[Len(Appended[Len(Appended)].content)]
       = "[Errno 28] No space left on device"
  /\ SubSeq(chat_store', 1, Len(chat_store)) = chat_store
  /\ show_video_store' = show_video_store
  /\ verdict_state_store' = verdict_state_store
  /\ uploads' = uploads

\* C11: when the write fails during an upload with an accepted extension
\* or during a task description send, the step appends an assistant
\* message with the failure reason as its last message (the only one of
\* the upload, the one after the user message of the send), leaves the
\* flag of the event, the video and the verdict as they were, and
\* writes nothing.
C11_WriteFailureReported ==
  [][\A score_file \in ScoreFiles :
       /\ \A contents \in Contents, filename \in FileNames :
            ScanWriteFailedStep(contents, filename, score_file) =>
              /\ FailureReported
              /\ Len(Appended) = 1
              /\ scan_state_store' = scan_state_store
       /\ \A text \in Texts :
            TaskWriteFailedStep(text, score_file) =>
              /\ FailureReported
              /\ Len(Appended) = 2
              /\ Appended[1] = UserText(Strip(text))
              /\ task_state_store' = task_state_store]_vars

\* a task description failed to be written after the scan was saved, and
\* no verdict followed
C11_Witness ==
  /\ scan_state_store.has_scan
  /\ ~task_state_store.has_task
  /\ ~verdict_state_store.ready
  /\ chat_store # <<>>
  /\ chat_store[Len(chat_store)] =
       Assistant(<<"Could not save task description: ",
                   "[Errno 28] No space left on device">>)

\* C12: the history before a step is a prefix of the history after it.
C12_HistoryAppendOnly ==
  [][/\ Len(chat_store') >= Len(chat_store)
     /\ SubSeq(chat_store', 1, Len(chat_store)) = chat_store]_vars

\* three events each appended to the history
C12_Witness ==
  /\ n_events = 3
  /\ Len(chat_store) >= 6
  /\ chat_store[1].role = "user"

\* this step handles a saved scan upload or a saved task description in a
\* state where both flags were set already, reading score_file
RerunStep(score_file) ==
  /\ scan_state_store.has_scan
  /\ task_state_store.has_task
  /\ \/ \E contents \in Contents, filename \in FileNames :
          ScanSavedStep(contents, filename, score_file)
     \/ \E text \in Texts : TaskSavedStep(text, score_file)

\* C13: with both flags set already, every saved scan upload and every
\* saved task description runs the cross-check again: the stored verdict
\* is ready and is the one computed from the score file of this call, and
\* the verdict messages follow the two messages of the event (guidance
\* and safe or what-if message on a determinate verdict, at least one
\* message on an indeterminate one).
C13_CrossCheckRunsAgain ==
  [][\A score_file \in ScoreFiles :
       RerunStep(score_file) =>
         /\ verdict_state_store'.ready
         /\ (verdict_state_store'.safe = "True") <=> (VerdictOn(score_file) = "True")
         /\ Len(Appended) >= 3
         /\ VerdictOn(score_file) # "None" =>
              /\ Len(Appended) = 4
              /\ Appended[3] = Assistant(MSG_TECHNIQUES)
              /\ Appended[4] = Assistant(IF VerdictOn(score_file) = "True"
                                         THEN MSG_SAFE ELSE MSG_WHAT_IF)]_vars

\* a second scan upload after an unsafe verdict found the task safe
C13_Witness ==
  /\ Len(chat_store) = 10
  /\ chat_store[6] = Assistant(MSG_WHAT_IF)
  /\ chat_store[7].kind = "file"
  /\ chat_store[10] = Assistant(MSG_SAFE)
  /\ verdict_state_store = [ready |-> TRUE, safe |-> "True"]

\* src is what the path resolution gives for a fragment of user_text
ResolvedFrom(user_text, src) ==
  \/ src = DEFAULT_VIDEO
  \/ \E k \in 1..Len(user_text) :
       LET frag == SubSeq(user_text, k, Len(user_text))
       IN  \/ /\ StartsWith(frag, <<"/", "a", "s", "s", "e", "t", "s", "/">>)
              /\ src = frag
           \/ /\ StartsWith(frag, <<"a", "s", "s", "e", "t", "s", "/">>)
              /\ src = <<"/">> \o frag
           \/ /\ ~StartsWith(frag, <<"/", "a", "s", "s", "e", "t", "s", "/">>)
              /\ ~StartsWith(frag, <<"a", "s", "s", "e", "t", "s", "/">>)
              /\ src = <<"/assets/static_dash/mocap/exp1/">> \o frag

\* the step shows the video of a resolved path and confirms the source
Played(text) ==
  /\ show_video_store'.show
  /\ ResolvedFrom(Strip(text), show_video_store'.src)
  /\ chat_store' = chat_store \o
       <<UserText(Strip(text)),
         Assistant(<<"Playing: ">> \o show_video_store'.src)>>

\* C14 as stated: every non-empty text send whose text matches the play
\* directive shows the video of the resolved path and confirms it.
C14_PlayDirectiveAlwaysPlays ==
  [][\A text \in Texts :
       ( /\ Sent(text)
         /\ Strip(text) # <<>>
         /\ PlayMatch(Strip(text))
         /\ \E score_file \in ScoreFiles, write_ok \in BOOLEAN :
              ClickSend(text, score_file, write_ok) ) =>
         Played(text)]_vars

\* C14 amended: every non-empty text send whose text matches the play
\* directive, does not begin with the task description prefix and does
\* not contain "lower weight" shows the video of the resolved path and
\* confirms it.
C14_PlayDirectivePlays ==
  [][\A text \in Texts :
       ( /\ Sent(text)
         /\ Strip(text) # <<>>
         /\ PlayMatch(Strip(text))
         /\ ~StartsWith(Lower(Strip(text)), TASK_PREFIX)
         /\ ~Contains(Lower(Strip(text)), LOWER_WEIGHT)
         /\ \E score_file \in ScoreFiles, write_ok \in BOOLEAN :
              ClickSend(text, score_file, write_ok) ) =>
         Played(text)]_vars

\* "/video a.mp4" was sent after the verdict and plays from the motion
\* directory
C14_Witness ==
  /\ verdict_state_store.ready
  /\ show_video_store =
       [show |-> TRUE,
        src |-> <<"/assets/static_dash/mocap/exp1/", "a", ".", "m", "p", "4">>]
  /\ chat_store[Len(chat_store) - 1] = UserText(T_VIDEO)

\* text reaches the tests after the task description, lower weight and
\* play rules: none of them handles it
PastPlayRule(text) ==
  /\ Strip(text) # <<>>
  /\ ~StartsWith(Lower(Strip(text)), TASK_PREFIX)
  /\ ~Contains(Lower(Strip(text)), LOWER_WEIGHT)
  /\ ~PlayMatch(Strip(text))

\* text holds one of the hide/stop phrases
HidePhrase(text) ==
  \E k \in { <<"/", "h", "i", "d", "e">>, <<"/", "s", "t", "o", "p">>,
             <<"h", "i", "d", "e", " ", "v", "i", "d", "e", "o">>,
             <<"s", "t", "o", "p", " ", "v", "i", "d", "e", "o">> } :
    Contains(Lower(Strip(text)), k)

\* the step changed no store but the history and the video, and wrote
\* nothing
FlagsAndVerdictKept ==
  /\ scan_state_store' = scan_state_store
  /\ task_state_store' = task_state_store
  /\ verdict_state_store' = verdict_state_store
  /\ uploads' = uploads

\* C15: a text send handled by the hide/stop rule sets show to false and
\* keeps src, appends the user message and "Video hidden.", and changes
\* no other store.
C15_HideKeepsSource ==
  [][\A text \in Texts :
       ( /\ Sent(text)
         /\ PastPlayRule(text)
         /\ HidePhrase(text)
         /\ \E score_file \in ScoreFiles, write_ok \in BOOLEAN :
              ClickSend(text, score_file, write_ok) ) =>
         /\ show_video_store' = [show |-> FALSE, src |-> show_video_store.src]
         /\ chat_store' = chat_store \o
              <<UserText(Strip(text)), Assistant(<<"Video hidden.">>)>>
         /\ FlagsAndVerdictKept]_vars

\* the video played from a path the user gave was hidden
C15_Witness ==
  /\ Len(chat_store) >= 4
  /\ chat_store[Len(chat_store)] = Assistant(<<"Video hidden.">>)
  /\ show_video_store =
       [show |-> FALSE,
        src |-> <<"/assets/static_dash/mocap/exp1/", "a", ".", "m", "p", "4">>]

\* C16: a non-empty text send that no rule handles (task description,
\* lower weight, play, hide/stop, increase height) appends the user
\* message and the filler message and changes no store but the history.
C16_FillerOnly ==
  [][\A text \in Texts :
       ( /\ Sent(text)
         /\ PastPlayRule(text)
         /\ ~HidePhrase(text)
         /\ ~Contains(Lower(Strip(text)), INCREASE_HEIGHT)
         /\ \E score_file \in ScoreFiles, write_ok \in BOOLEAN :
              ClickSend(text, score_file, write_ok) ) =>
         /\ chat_store' = chat_store \o
              <<UserText(Strip(text)), Assistant(<<"...">>)>>
         /\ show_video_store' = show_video_store
         /\ FlagsAndVerdictKept]_vars

\* "hi" was answered with the filler after the verdict was ready
C16_Witness ==
  /\ verdict_state_store.ready
  /\ chat_store[Len(chat_store) - 1] = UserText(T_HI)
  /\ chat_store[Len(chat_store)] = Assistant(<<"...">>)
  /\ show_video_store.show

\* C17: a text send whose text is empty or only whitespace appends
\* nothing, changes no store and leaves the text in the input.
C17_EmptySendChangesNothing ==
  [][\A text \in Texts :
       ( /\ Sent(text)
         /\ \A i \in 1..Len(text) : text[i] \in Whitespace
         /\ \E score_file \in ScoreFiles, write_ok \in BOOLEAN :
              ClickSend(text, score_file, write_ok) ) =>
         /\ chat_store' = chat_store
         /\ chat_text' = text
         /\ show_video_store' = show_video_store
         /\ FlagsAndVerdictKept]_vars

\* a text of two spaces was sent after a scan upload and is still in the
\* input
C17_Witness ==
  /\ call = [fn |-> "handle_chat", triggered |-> "chat-send",
             upload_contents |-> NoContents, upload_filename |-> <<>>,
             text_value |-> T_BLANK]
  /\ chat_text = T_BLANK
  /\ scan_state_store.has_scan
  /\ Len(chat_store) = 2

\* ------------------------------------------------------------------------
\* load_niosh_scores called on its own
\* ------------------------------------------------------------------------

\* the calls read entries 0..MaxId
MaxId == 1

\* values of a score variable: unset, 0.8, "n/a", [], [0.8], [0.8, 1.2]
AttrValues ==
  { PyNone, PyNum(8000), PyStr(N_A), PyList(<<>>), PyList(<<PyNum(8000)>>),
    PyList(<<PyNum(8000), PyNum(12000)>>) }

\* a file whose execution raises
BrokenFile ==
  [exists |-> TRUE, loads |-> FALSE,
   attrs |-> [LI |-> PyNone, RWL |-> PyNone, SSPP_L4L5 |-> PyNone]]

LoadFiles ==
  { ScoreModule(li, rwl, back) :
      li \in AttrValues, rwl \in AttrValues, back \in AttrValues }
  \cup { MissingFile, BrokenFile }

InitLoad ==
  /\ InitSession
  /\ call \in { [fn |-> "load_niosh_scores", file |-> f, id |-> i,
                 done |-> FALSE, ret |-> EmptyDict] :
                f \in LoadFiles, i \in 0..MaxId }

\* the call returns
ReturnLoadScores ==
  /\ call.fn = "load_niosh_scores"
  /\ ~call.done
  /\ call' = [call EXCEPT !.done = TRUE,
                          !.ret = load_niosh_scores(call.file, call.id)]
  /\ UNCHANGED <<chat_store, chat_text, chat_upload_contents,
                 chat_upload_filename, show_video_store, scan_state_store,
                 task_state_store, verdict_state_store, uploads, n_events,
                 tabs>>

NextLoad == ReturnLoadScores

SpecLoad == InitLoad /\ [][NextLoad]_vars

\* load_niosh_scores has returned
Loaded == call.fn = "load_niosh_scores" /\ call.done

ScoreKeys == {"LI", "RWL", "SSPP_L4L5"}

\* C18 as stated: each key whose source value is missing, is no number and
\* no list, or is a list too short for the index is None in the result.
C18_UnusableValueIsNone ==
  Loaded =>
    \A k \in ScoreKeys :
      ( \/ ~call.file.exists
        \/ ~call.file.loads
        \/ call.file.attrs[k].kind \in {"none", "str"}
        \/ /\ call.file.attrs[k].kind = "list"
           /\ Len(call.file.attrs[k].items) <= call.id ) =>
        DictGet(call.ret, k) = PyNone

\* C18 amended: a key is None in the result when the file is missing or
\* fails to load or the variable is unset; a list long enough gives its
\* entry at the index; every other value, a list too short for the index
\* included, is returned as it is; no key depends on the other keys.
C18_ValueOrEntry ==
  Loaded =>
    \A k \in ScoreKeys :
      DictGet(call.ret, k) =
        IF ~call.file.exists \/ ~call.file.loads THEN PyNone
        ELSE IF /\ call.file.attrs[k].kind = "list"
                /\ Len(call.file.attrs[k].items) > call.id
        THEN call.file.attrs[k].items[call.id + 1]
        ELSE call.file.attrs[k]

\* entry 1 was read of a file with LI = [0.8], RWL unset and
\* SSPP_L4L5 = [0.8, 1.2]
C18_Witness ==
  /\ Loaded
  /\ call.id = 1
  /\ call.file.attrs.LI = PyList(<<PyNum(8000)>>)
  /\ call.file.attrs.RWL = PyNone
  /\ DictGet(call.ret, "LI") = PyList(<<PyNum(8000)>>)
  /\ DictGet(call.ret, "RWL") = PyNone
  /\ DictGet(call.ret, "SSPP_L4L5") = PyNum(12000)

\* ------------------------------------------------------------------------
\* is_scan_file called on its own
\* ------------------------------------------------------------------------

\* what comes before the end of a file name: nothing, a stem, a stem with
\* a dot, a directory, a directory named like a scan
NamePrefixes ==
  { <<>>, <<"a">>, <<"A", ".", "b">>, <<"d", "/">>,
    <<"d", ".", "g", "l", "b", "/">> }

\* ends of a file name: the accepted extensions, some in upper or mixed
\* case, and ends that are no extension of the set
NameEnds ==
  SCAN_EXTS \cup
  { <<".", "G", "L", "B">>, <<".", "G", "l", "t", "f">>,
    <<".", "O", "B", "J">>, <<".", "p", "d", "f">>,
    <<".", "g", "l", "b", ".">>, <<".", "g", "l", "b", "/">>,
    <<".", "g", "l", "b", "x">>, <<".", "g", "l", "b", " ">>,
    <<"g", "l", "b">>, <<".">>, <<>> }

ScanFileNames == { p \o e : p \in NamePrefixes, e \in NameEnds }

InitScan ==
  /\ InitSession
  /\ call \in { [fn |-> "is_scan_file", arg |-> f, done |-> FALSE,
                 ret |-> FALSE] : f \in ScanFileNames }

\* the call returns
ReturnIsScanFile ==
  /\ call.fn = "is_scan_file"
  /\ ~call.done
  /\ call' = [call EXCEPT !.done = TRUE, !.ret = is_scan_file(call.arg)]
  /\ UNCHANGED <<chat_store, chat_text, chat_upload_contents,
                 chat_upload_filename, show_video_store, scan_state_store,
                 task_state_store, verdict_state_store, uploads, n_events,
                 tabs>>

NextScan == ReturnIsScanFile

SpecScan == InitScan /\ [][NextScan]_vars

\* is_scan_file has returned
Classified == call.fn = "is_scan_file" /\ call.done

\* s ends, case-insensitively, with ext
EndsWithExt(s, ext) ==
  /\ Len(s) >= Len(ext)
  /\ Lower(SubSeq(s, Len(s) - Len(ext) + 1, Len(s))) = ext

\* C19 as stated: is_scan_file accepts exactly the file names that end,
\* case-insensitively, with one of the twelve extensions.
C19_AcceptsNamesEndingWithExt ==
  Classified =>
    (call.ret <=> \E ext \in SCAN_EXTS : EndsWithExt(call.arg, ext))

\* C19 amended: is_scan_file accepts exactly the file names whose final
\* path component ends, case-insensitively, with one of the twelve
\* extensions and has at least one character before it.
C19_AcceptsSuffixOfName ==
  Classified =>
    (call.ret <=>
       \E ext \in SCAN_EXTS :
         /\ EndsWithExt(PathName(call.arg), ext)
         /\ Len(PathName(call.arg)) > Len(ext))

\* "A.b.GLB" was accepted
C19_Witness ==
  /\ Classified
  /\ call.arg = <<"A", ".", "b", ".", "G", "L", "B">>
  /\ call.ret

\* ------------------------------------------------------------------------
\* The what-if rules
\* ------------------------------------------------------------------------

\* text is non-empty, is no task description and holds "lower weight"
LowerWeightText(text) ==
  /\ Strip(text) # <<>>
  /\ ~StartsWith(Lower(Strip(text)), TASK_PREFIX)
  /\ Contains(Lower(Strip(text)),
              <<"l", "o", "w", "e", "r", " ", "w", "e", "i", "g", "h", "t">>)

\* text is non-empty, is handled by no earlier rule and holds "increase
\* height"
IncreaseHeightText(text) ==
  /\ Strip(text) # <<>>
  /\ ~StartsWith(Lower(Strip(text)), TASK_PREFIX)
  /\ ~Contains(Lower(Strip(text)),
               <<"l", "o", "w", "e", "r", " ", "w", "e", "i", "g", "h", "t">>)
  /\ ~PlayMatch(Strip(text))
  /\ ~HidePhrase(text)
  /\ Contains(Lower(Strip(text)),
              <<"i", "n", "c", "r", "e", "a", "s", "e", " ", "h", "e", "i", "g", "h", "t">>)

\* C20: a text send handled by the lower weight rule or by the increase
\* height rule appends the user message and the fixed message of the rule
\* and changes no store but the history.
C20_WhatIfRepliesOnly ==
  [][\A text \in Texts :
       ( /\ Sent(text)
         /\ LowerWeightText(text) \/ IncreaseHeightText(text)
         /\ \E score_file \in ScoreFiles, write_ok \in BOOLEAN :
              ClickSend(text, score_file, write_ok) ) =>
         /\ chat_store' = chat_store \o
              <<UserText(Strip(text)),
                Assistant(IF LowerWeightText(text)
                          THEN MSG_LOWER_WEIGHT ELSE MSG_INCREASE_HEIGHT)>>
         /\ show_video_store' = show_video_store
         /\ FlagsAndVerdictKept]_vars

\* both what-if phrases were sent after a scan was uploaded
C20_Witness ==
  /\ Len(chat_store) = 6
  /\ scan_state_store.has_scan
  /\ Assistant(MSG_LOWER_WEIGHT) \in {chat_store[4], chat_store[6]}
  /\ Assistant(MSG_INCREASE_HEIGHT) \in {chat_store[4], chat_store[6]}


\* ---------------------------------------------------------------------
\* Two browser sessions side by side
\* ---------------------------------------------------------------------

\* the components of a browser session as the layout creates them
LayoutStores ==
  [chat_store |-> <<>>,
   chat_text |-> <<>>,
   chat_upload_contents |-> NoContents,
   chat_upload_filename |-> <<>>,
   show_video_store |-> [show |-> FALSE, src |-> <<>>],
   scan_state_store |-> [has_scan |-> FALSE, path |-> <<>>],
   task_state_store |-> [has_task |-> FALSE, json_path |-> <<>>],
   verdict_state_store |-> [ready |-> FALSE, safe |-> "None"]]

\* every session is handed one and the same session's components
StateOfShared(i, stores) == stores[1]

\* the Input and State values of a call are those of the components of the
\* browser session that made the request
StateOf(i, stores) == stores[i]

\* an event of a session: what the user did and whether the disk takes a
\* write during the call
SendEvent(text, write_ok) ==
  [triggered |-> "chat-send", contents |-> NoContents, filename |-> <<>>,
   text |-> text, write_ok |-> write_ok]

UploadEvent(contents, filename, write_ok) ==
  [triggered |-> "chat-upload", contents |-> contents,
   filename |-> filename, text |-> <<>>, write_ok |-> write_ok]

\* the arguments of the call that event ev makes in a session whose
\* components hold s
ArgsOf(s, ev) ==
  [upload_contents |-> IF ev.triggered = "chat-upload"
                       THEN ev.contents ELSE s.chat_upload_contents,
   upload_filename |-> IF ev.triggered = "chat-upload"
                       THEN ev.filename ELSE s.chat_upload_filename,
   text_value |-> IF ev.triggered = "chat-send"
                  THEN ev.text ELSE s.chat_text,
   history |-> s.chat_store,
   video_state |-> s.show_video_store,
   scan_state |-> s.scan_state_store,
   task_state |-> s.task_state_store]

\* the components of the session after Dash wrote the outputs of the call
Written(s, a, out) ==
  [chat_store |-> Apply(s.chat_store, out.history),
   chat_text |-> Apply(a.text_value, out.text),
   chat_upload_contents |-> Apply(a.upload_contents, out.contents),
   chat_upload_filename |-> Apply(a.upload_filename, out.filename),
   show_video_store |-> Apply(s.show_video_store, out.video),
   scan_state_store |-> Apply(s.scan_state_store, out.scan),
   task_state_store |-> Apply(s.task_state_store, out.task),
   verdict_state_store |-> Apply(s.verdict_state_store, out.verdict)]

\* each session handles at most MaxTabEvents events
MaxTabEvents == 2

TabEvents ==
  { SendEvent(T_TASK, TRUE), SendEvent(T_VIDEO, TRUE),
    SendEvent(T_HIDE, TRUE),
    UploadEvent(C_VALID, F_SCAN, TRUE), UploadEvent(C_VALID, F_SCAN, FALSE) }

\* two sessions open the page; the score file stays as it is for the run
InitTwo ==
  /\ chat_store = LayoutStores.chat_store
  /\ chat_text = LayoutStores.chat_text
  /\ chat_upload_contents = LayoutStores.chat_upload_contents
  /\ chat_upload_filename = LayoutStores.chat_upload_filename
  /\ show_video_store = LayoutStores.show_video_store
  /\ scan_state_store = LayoutStores.scan_state_store
  /\ task_state_store = LayoutStores.task_state_store
  /\ verdict_state_store = LayoutStores.verdict_state_store
  /\ uploads = {}
  /\ n_events = 0
  /\ call = NoCall
  /\ \E score_file \in ScoreFiles :
       tabs = [stores |-> <<LayoutStores, LayoutStores>>,
               logs |-> <<(<<>>), (<<>>)>>,
               source |-> score_file]

\* session i handles event ev; the upload directory is the one directory of
\* the server
TabEvent(i, ev) ==
  /\ Len(tabs.logs[i]) < MaxTabEvents
  /\ \E a \in {ArgsOf(StateOf(i, tabs.stores), ev)} :
       \E out \in {handle_chat(ev.triggered, a, tabs.source, ev.write_ok)} :
         /\ tabs' = [tabs EXCEPT
                       !.stores[i] = Written(StateOf(i, tabs.stores), a, out),
                       !.logs[i] = Append(@, ev)]
         /\ uploads' = uploads \cup out.written
  /\ UNCHANGED <<chat_store, chat_text, chat_upload_contents,
                 chat_upload_filename, show_video_store, scan_state_store,
                 task_state_store, verdict_state_store, n_events, call>>

NextTwo == \E i \in 1..2, ev \in TabEvents : TabEvent(i, ev)

SpecTwo == InitTwo /\ [][NextTwo]_vars

\* the components of a session that handled the events of log on its own,
\* from the layout on
RECURSIVE RunAlone(_, _)
RunAlone(log, score_file) ==
  IF log = <<>> THEN LayoutStores
  ELSE LET s == RunAlone(SubSeq(log, 1, Len(log) - 1), score_file)
           ev == log[Len(log)]
           a == ArgsOf(s, ev)
       IN Written(s, a, handle_chat(ev.triggered, a, score_file, ev.write_ok))

\* C21: with the score file fixed, every interleaving of the events of two
\* sessions leaves each session with the history (and so the replies), the
\* video state, the flags and the verdict it has after handling its own
\* events alone: nothing one session does shows in the other.
C21_SessionsDoNotInterfere ==
  \A i \in 1..2 : tabs.stores[i] = RunAlone(tabs.logs[i], tabs.source)

\* both sessions handled events: one uploaded a scan and described the task,
\* the other did neither and plays a video
C21_Witness ==
  /\ Len(tabs.logs[1]) = 2
  /\ Len(tabs.logs[2]) = 2
  /\ tabs.stores[1].verdict_state_store.ready
  /\ ~tabs.stores[2].scan_state_store.has_scan
  /\ ~tabs.stores[2].task_state_store.has_task
  /\ tabs.stores[2].show_video_store.show


\* ---------------------------------------------------------------------
\* The dispatch rules of the send branch
\* ---------------------------------------------------------------------

\* texts for the rules and for their order: one rule each, several rules
\* in one text, and the play directive with each kind of fragment
T_KEY == <<"k", "e", "y">>
T_PLAY == <<"/", "p", "l", "a", "y">>
T_VIDEO_ABS ==
  <<"/", "v", "i", "d", "e", "o", " ", "/", "a", "s", "s", "e", "t", "s", "/", "x", ".", "m", "p", "4">>
T_VIDEO_REL ==
  <<"/", "v", "i", "d", "e", "o", " ", "a", "s", "s", "e", "t", "s", "/", "x", ".", "m", "p", "4">>
T_TASK_PLAY ==
  <<"t", "a", "s", "k", " ", "d", "e", "s", "c", "r", "i", "p", "t", "i", "o", "n", ":", " ", "/", "p", "l", "a", "y">>
T_PLAY_HIDE ==
  <<"/", "p", "l", "a", "y", " ", "h", "i", "d", "e", " ", "v", "i", "d", "e", "o">>
T_STOP_HEIGHT ==
  <<"/", "s", "t", "o", "p", " ", "i", "n", "c", "r", "e", "a", "s", "e", " ", "h", "e", "i", "g", "h", "t">>
T_LOWER_HIDE ==
  <<"l", "o", "w", "e", "r", " ", "w", "e", "i", "g", "h", "t", " ", "/", "h", "i", "d", "e">>

RuleTexts ==
  {T_TASK, T_VIDEO, T_HEIGHT, T_LOWER_PLAY, T_KEY, T_PLAY, T_VIDEO_ABS,
   T_VIDEO_REL, T_TASK_PLAY, T_PLAY_HIDE, T_STOP_HEIGHT, T_LOWER_HIDE}

\* the score files of the runs of the rules
RuleScoreFiles ==
  {MissingFile, ScoreModule(PyNum(8000), PyNum(230000), PyNum(3000 * Unit))}

\* the user sends texts and may upload a scan
NextText ==
  \/ \E text \in RuleTexts, score_file \in RuleScoreFiles,
        write_ok \in BOOLEAN :
       ClickSend(text, score_file, write_ok)
  \/ \E score_file \in RuleScoreFiles :
       UploadFile(C_VALID, F_SCAN, score_file, TRUE)

SpecText == Init /\ [][NextText]_vars

\* this step is a send of text in a run of the rules
RuleSend(text) ==
  /\ Sent(text)
  /\ \E score_file \in RuleScoreFiles, write_ok \in BOOLEAN :
       ClickSend(text, score_file, write_ok)

\* text is handled by none of the task description, what-if, play and hide
\* rules
Unmatched(text) ==
  /\ PastPlayRule(text)
  /\ ~HidePhrase(text)
  /\ ~Contains(Lower(Strip(text)), INCREASE_HEIGHT)

\* C23: a non-empty text send that matches no directive, task prefix or
\* what-if phrase but contains the trigger substring "key" receives one
\* fixed assistant reply that is not the filler reply.
C23_TriggerGetsOwnReply ==
  [][\A text \in RuleTexts :
       ( /\ RuleSend(text)
         /\ Unmatched(text)
         /\ Contains(Lower(Strip(text)), <<"k", "e", "y">>) ) =>
         /\ Len(Appended) = 2
         /\ Appended[1] = UserText(Strip(text))
         /\ Appended[2].role = "assistant"
         /\ Appended[2] # Assistant(<<"...">>)]_vars


\* text is handled by the play rule: it is not empty, the task description
\* and lower weight rules do not take it, and the directive matches
PlayRuleText(text) ==
  /\ Strip(text) # <<>>
  /\ ~StartsWith(Lower(Strip(text)), TASK_PREFIX)
  /\ ~Contains(Lower(Strip(text)), LOWER_WEIGHT)
  /\ PlayMatch(Strip(text))

\* the source the path resolution rule gives for a fragment
RuleSource(fragment) ==
  IF fragment = <<>> THEN DEFAULT_VIDEO
  ELSE IF StartsWith(fragment, <<"/", "a", "s", "s", "e", "t", "s", "/">>)
  THEN fragment
  ELSE IF StartsWith(fragment, <<"a", "s", "s", "e", "t", "s", "/">>)
  THEN <<"/">> \o fragment
  ELSE <<"/assets/static_dash/mocap/exp1/">> \o fragment

\* C24: a text send handled by the play rule shows the video of the source
\* resolved from the fragment (the default video for no fragment, the
\* fragment itself when it begins with "/assets/", "/" and the fragment
\* when it begins with "assets/", and else the motion directory followed
\* by the fragment) and replies "Playing: " followed by that source.
C24_PlaySourceResolved ==
  [][\A text \in RuleTexts :
       ( /\ RuleSend(text)
         /\ PlayRuleText(text) ) =>
         /\ show_video_store' =
              [show |-> TRUE,
               src |-> RuleSource(Strip(PlayGroup(Strip(text))))]
         /\ chat_store' = chat_store \o
              <<UserText(Strip(text)),
                Assistant(<<"Playing: ">> \o
                            RuleSource(Strip(PlayGroup(Strip(text)))))>>]_vars

\* "/video assets/x.mp4" was sent last and plays from "/assets/x.mp4",
\* after the default video and a file of the motion directory were played
C24_Witness ==
  /\ Len(chat_store) = 6
  /\ chat_store[1] = UserText(T_PLAY)
  /\ chat_store[2] = Assistant(<<"Playing: ">> \o DEFAULT_VIDEO)
  /\ chat_store[3] = UserText(T_VIDEO)
  /\ chat_store[5] = UserText(T_VIDEO_REL)
  /\ show_video_store =
       [show |-> TRUE,
        src |-> <<"/", "a", "s", "s", "e", "t", "s", "/", "x", ".", "m", "p", "4">>]


\* ---------------------------------------------------------------------
\* The text input, the order of events and the flags
\* ---------------------------------------------------------------------

\* the call of this step was triggered by Send with text that is not blank
NonEmptySendStep ==
  /\ call'.triggered = "chat-send"
  /\ \E i \in 1..Len(call'.text_value) : call'.text_value[i] \notin Whitespace

\* the step appended a text message of the user
UserTextAppended ==
  \E i \in 1..Len(Appended) :
    Appended[i].role = "user" /\ Appended[i].kind = "text"

\* C25: the text input is emptied by exactly the calls that appended a text
\* message of the user, which are the sends of text that is not empty,
\* saved or not; an empty send, an upload of any kind and a call with no
\* trigger leave in the input what it held.
C25_TextEmptiedBySendsOnly ==
  [][call'.fn = "handle_chat" =>
       /\ NonEmptySendStep <=> UserTextAppended
       /\ NonEmptySendStep => chat_text' = <<>>
       /\ ~NonEmptySendStep => chat_text' = call'.text_value
       /\ call'.triggered # "chat-send" => chat_text' = chat_text]_vars

\* "hi" was sent and emptied the input, a blank text was sent and stayed,
\* and the upload that followed left it in the input
C25_Witness ==
  /\ call.fn = "handle_chat"
  /\ call.triggered = "chat-upload"
  /\ call.upload_contents # NoContents
  /\ chat_text = T_BLANK
  /\ Len(chat_store) >= 3
  /\ chat_store[1] = UserText(T_HI)


\* an accepted scan upload that is saved, and a task description whose
\* record is saved
ScanEvent == UploadEvent(C_VALID, F_SCAN, TRUE)
TaskEvent == SendEvent(T_TASK, TRUE)

\* the flags, the video and the verdict of a session
FlagsVideoVerdict(s) ==
  <<s.scan_state_store, s.task_state_store, s.show_video_store,
    s.verdict_state_store>>

\* C26: with the score file fixed, a session that handled a saved scan
\* upload and then a saved task description and a session that handled
\* them in the other order hold the same scan state, task state, video
\* state and verdict state, and in either order the verdict is not ready
\* after the first of the two events and ready after the second.
C26_ScanAndTaskCommute ==
  \A i \in 1..2 :
    /\ tabs.logs[i] \in {<<ScanEvent>>, <<TaskEvent>>} =>
         ~tabs.stores[i].verdict_state_store.ready
    /\ tabs.logs[i] \in {<<ScanEvent, TaskEvent>>, <<TaskEvent, ScanEvent>>} =>
         tabs.stores[i].verdict_state_store.ready
    /\ ( /\ tabs.logs[i] = <<ScanEvent, TaskEvent>>
         /\ tabs.logs[3 - i] = <<TaskEvent, ScanEvent>> ) =>
         FlagsVideoVerdict(tabs.stores[i]) =
           FlagsVideoVerdict(tabs.stores[3 - i])

\* one session handled the scan and then the task, the other the task and
\* then the scan; their histories differ and the score file gives a verdict
C26_Witness ==
  /\ tabs.logs[1] = <<ScanEvent, TaskEvent>>
  /\ tabs.logs[2] = <<TaskEvent, ScanEvent>>
  /\ tabs.stores[1].chat_store # tabs.stores[2].chat_store
  /\ tabs.stores[1].verdict_state_store.safe = "True"
  /\ tabs.stores[2].show_video_store = [show |-> TRUE, src |-> DEFAULT_VIDEO]


\* the first rule of the order task description, lower weight, play,
\* hide/stop, increase height, filler whose pattern text matches
FirstRule(text) ==
  IF StartsWith(Lower(Strip(text)), TASK_PREFIX) THEN "task"
  ELSE IF Contains(Lower(Strip(text)), LOWER_WEIGHT) THEN "lower weight"
  ELSE IF PlayMatch(Strip(text)) THEN "play"
  ELSE IF HidePhrase(text) THEN "hide"
  ELSE IF Contains(Lower(Strip(text)), INCREASE_HEIGHT) THEN "increase height"
  ELSE "filler"

\* the step has the effect of the named rule and of no other: the reply of
\* the rule follows the user message, the video changes as the rule says,
\* and only the task rule touches the flags, the verdict and the disk
RuleEffect(rule) ==
  /\ Len(Appended) >= 2
  /\ Appended[2].role = "assistant"
  /\ CASE rule = "task" ->
            /\ Appended[2].content[1] \in
                 {"Extracted task parameters: ",
                  "Could not save task description: "}
            /\ scan_state_store' = scan_state_store
            /\ IF /\ Appended[2].content[1] = "Extracted task parameters: "
                  /\ scan_state_store.has_scan
               THEN /\ Len(Appended) > 2
                    /\ show_video_store' = [show |-> TRUE, src |-> DEFAULT_VIDEO]
               ELSE /\ Len(Appended) = 2
                    /\ show_video_store' = show_video_store
       [] rule = "lower weight" ->
            /\ Appended[2] = Assistant(MSG_LOWER_WEIGHT)
            /\ Len(Appended) = 2
            /\ show_video_store' = show_video_store
            /\ FlagsAndVerdictKept
       [] rule = "play" ->
            /\ Appended[2].content[1] = "Playing: "
            /\ Len(Appended) = 2
            /\ show_video_store'.show
            /\ FlagsAndVerdictKept
       [] rule = "hide" ->
            /\ Appended[2] = Assistant(MSG_VIDEO_HIDDEN)
            /\ Len(Appended) = 2
            /\ show_video_store' = [show |-> FALSE, src |-> show_video_store.src]
            /\ FlagsAndVerdictKept
       [] rule = "increase height" ->
            /\ Appended[2] = Assistant(MSG_INCREASE_HEIGHT)
            /\ Len(Appended) = 2
            /\ show_video_store' = show_video_store
            /\ FlagsAndVerdictKept
       [] rule = "filler" ->
            /\ Appended[2] = Assistant(MSG_FILLER)
            /\ Len(Appended) = 2
            /\ show_video_store' = show_video_store
            /\ FlagsAndVerdictKept

\* C27: a non-empty text send has the effect of exactly one rule, the first
\* in the order task description, lower weight, play, hide/stop, increase
\* height, filler whose pattern the text matches; a text that matches
\* several patterns has the effect of the earliest only.
C27_FirstMatchingRuleOnly ==
  [][\A text \in RuleTexts :
       ( /\ RuleSend(text)
         /\ Strip(text) # <<>> ) =>
         /\ Appended[1] = UserText(Strip(text))
         /\ RuleEffect(FirstRule(text))]_vars

\* "/play hide video" played the video, and "lower weight /hide" after it
\* got the lower weight reply and left the video showing
C27_Witness ==
  /\ Len(chat_store) = 4
  /\ chat_store[1] = UserText(T_PLAY_HIDE)
  /\ chat_store[3] = UserText(T_LOWER_HIDE)
  /\ chat_store[4] = Assistant(MSG_LOWER_WEIGHT)
  /\ show_video_store.show


\* C28: no call of handle_chat sets has_scan or has_task back to false once
\* it is true, and in every reachable state a true has_scan comes with a
\* non-empty scan path and a true has_task with a non-empty record path.
C28_FlagsMonotonic ==
  /\ []( /\ scan_state_store.has_scan => scan_state_store.path # <<>>
         /\ task_state_store.has_task => task_state_store.json_path # <<>> )
  /\ [][ /\ scan_state_store.has_scan => scan_state_store'.has_scan
         /\ task_state_store.has_task => task_state_store'.has_task ]_vars

\* both flags were set and the call after them, an upload of a file that is
\* not a scan, left them set
C28_Witness ==
  /\ scan_state_store.has_scan
  /\ task_state_store.has_task
  /\ n_events = 3
  /\ call.fn = "handle_chat"
  /\ call.triggered = "chat-upload"
  /\ call.upload_filename = F_PDF

=============================================================================
